---- MODULE Spec2Model ----
(***************************************************************************)
(* Model of code-editorapp.py: the response cleaner, the safety filter,    *)
(* the output capture, the snippet executor and the reply parser.          *)
(* A text is a sequence of characters, each a string.                      *)
(***************************************************************************)
EXTENDS Integers, Sequences, FiniteSets, TLC

\* ------------------------------------------------------------------ bounds
MaxCleanPieces == 4     \* pieces the cleaner's input is assembled from
MaxCodePieces  == 4     \* pieces the safety filter's input is assembled from
MaxReplyPieces == 4     \* pieces an assistant reply is assembled from
MaxStmts       == 2     \* statements of an executed snippet

\* ------------------------------------------------------------- characters
NL  == "\n"
\* the backquote character (the lexer admits none inside a string literal)
BT  == "BQ"
AST == "*"

Whitespace == {" ", NL, "\t"}

IsSpace(c) == c \in Whitespace

\* s[i..] starts with the literal p
StartsWith(s, i, p) ==
    /\ i >= 1
    /\ i + Len(p) - 1 <= Len(s)
    /\ \A j \in 1..Len(p) : s[i + j - 1] = p[j]

\* p in s
Contains(s, p) ==
    \/ p = << >>
    \/ \E i \in 1..(Len(s) - Len(p) + 1) : s[i] = p[1] /\ StartsWith(s, i, p)

\* first index >= i of s that holds no whitespace (Len(s)+1 when none): the
\* end of a greedy \s*
RECURSIVE SkipSpace(_, _)
SkipSpace(s, i) ==
    IF i <= Len(s) /\ IsSpace(s[i]) THEN SkipSpace(s, i + 1) ELSE i

\* first index >= i of s that holds a newline (Len(s)+1 when none): the end
\* of a greedy .* , which stops before a newline
RECURSIVE LineEnd(_, _)
LineEnd(s, i) ==
    IF i <= Len(s) /\ s[i] # NL THEN LineEnd(s, i + 1) ELSE i

SetMax(S) == CHOOSE x \in S : \A y \in S : y <= x
SetMin(S) == CHOOSE x \in S : \A y \in S : x <= y

\* str.strip(): leading and trailing whitespace removed
RECURSIVE RStripEnd(_, _)
RStripEnd(s, j) ==
    IF j >= 1 /\ IsSpace(s[j]) THEN RStripEnd(s, j - 1) ELSE j

strip(s) ==
    LET a == SkipSpace(s, 1)
        b == RStripEnd(s, Len(s))
    IN  IF a > b THEN << >> ELSE SubSeq(s, a, b)

\* --------------------------------------------------- clean_code_from_response
\* Each Match operator gives the index of the last character of the match of
\* its pattern that starts at i, or 0 when the pattern does not match there.
\* Each Sub operator is re.sub: leftmost matches, not overlapping, replaced.

FencePython == <<BT, BT, BT, "p", "y", "t", "h", "o", "n">>
Fence       == <<BT, BT, BT>>

\* BQ BQ BQ python \s* \n  : the greedy \s* gives back up to the last newline of the
\* whitespace run
MatchFencePython(s, i) ==
    IF ~StartsWith(s, i, FencePython) THEN 0
    ELSE LET r   == SkipSpace(s, i + Len(FencePython))
             nls == {k \in (i + Len(FencePython))..(r - 1) : s[k] = NL}
         IN  IF nls = {} THEN 0 ELSE SetMax(nls)

RECURSIVE SubFencePython(_, _)
SubFencePython(s, i) ==
    IF i > Len(s) THEN << >>
    ELSE LET e == MatchFencePython(s, i)
         IN  IF e = 0 THEN <<s[i]>> \o SubFencePython(s, i + 1)
             ELSE SubFencePython(s, e + 1)

\* BQ BQ BQ \s* \n?  : the greedy \s* takes the whole whitespace run, newlines too
MatchFence(s, i) ==
    IF ~StartsWith(s, i, Fence) THEN 0
    ELSE SkipSpace(s, i + Len(Fence)) - 1

RECURSIVE SubFence(_, _)
SubFence(s, i) ==
    IF i > Len(s) THEN << >>
    ELSE LET e == MatchFence(s, i)
         IN  IF e = 0 THEN <<s[i]>> \o SubFence(s, i + 1)
             ELSE SubFence(s, e + 1)

\* \*\*(.+?)\*\*  : index of the first character of the nearest closing **
\* that leaves a non-empty group without a newline, or 0
BoldClose(s, i) ==
    IF ~StartsWith(s, i, <<AST, AST>>) THEN 0
    ELSE LET ks == {k \in (i + 3)..Len(s) :
                      /\ StartsWith(s, k, <<AST, AST>>)
                      /\ \A j \in (i + 2)..(k - 1) : s[j] # NL}
         IN  IF ks = {} THEN 0 ELSE SetMin(ks)

RECURSIVE SubBold(_, _)
SubBold(s, i) ==
    IF i > Len(s) THEN << >>
    ELSE LET k == BoldClose(s, i)
         IN  IF k = 0 THEN <<s[i]>> \o SubBold(s, i + 1)
             ELSE SubSeq(s, i + 2, k - 1) \o SubBold(s, k + 2)

\* \*(.+?)\*  : index of the nearest closing * that leaves a non-empty group
\* without a newline, or 0
ItalicClose(s, i) ==
    IF ~StartsWith(s, i, <<AST>>) THEN 0
    ELSE LET ks == {k \in (i + 2)..Len(s) :
                      /\ s[k] = AST
                      /\ \A j \in (i + 1)..(k - 1) : s[j] # NL}
         IN  IF ks = {} THEN 0 ELSE SetMin(ks)

RECURSIVE SubItalic(_, _)
SubItalic(s, i) ==
    IF i > Len(s) THEN << >>
    ELSE LET k == ItalicClose(s, i)
         IN  IF k = 0 THEN <<s[i]>> \o SubItalic(s, i + 1)
             ELSE SubSeq(s, i + 1, k - 1) \o SubItalic(s, k + 1)

\* ^ # \s* BQ BQ BQ .* $ with re.MULTILINE: from a line start, # , whitespace (newlines
\* too), a fence, then the rest of that line
MatchCommentedFence(s, i) ==
    IF ~(i <= Len(s) /\ (i = 1 \/ s[i - 1] = NL) /\ s[i] = "#") THEN 0
    ELSE LET r == SkipSpace(s, i + 1)
         IN  IF StartsWith(s, r, Fence) THEN LineEnd(s, r + Len(Fence)) - 1
             ELSE 0

RECURSIVE SubCommentedFence(_, _)
SubCommentedFence(s, i) ==
    IF i > Len(s) THEN << >>
    ELSE LET e == MatchCommentedFence(s, i)
         IN  IF e = 0 THEN <<s[i]>> \o SubCommentedFence(s, i + 1)
             ELSE SubCommentedFence(s, e + 1)

\* \n\s*\n\s*\n  : a whitespace run that starts with a newline and holds at
\* least three; the match ends at the run's last newline
MatchBlankLines(s, i) ==
    IF ~(i <= Len(s) /\ s[i] = NL) THEN 0
    ELSE LET r   == SkipSpace(s, i)
             nls == {k \in i..(r - 1) : s[k] = NL}
         IN  IF Cardinality(nls) >= 3 THEN SetMax(nls) ELSE 0

RECURSIVE SubBlankLines(_, _)
SubBlankLines(s, i) ==
    IF i > Len(s) THEN << >>
    ELSE LET e == MatchBlankLines(s, i)
         IN  IF e = 0 THEN <<s[i]>> \o SubBlankLines(s, i + 1)
             ELSE <<NL, NL>> \o SubBlankLines(s, e + 1)

clean_code_from_response(code_text) ==
    LET t1 == SubFencePython(code_text, 1)
        t2 == SubFence(t1, 1)
        t3 == strip(t2)
        t4 == SubBold(t3, 1)
        t5 == SubItalic(t4, 1)
        t6 == SubCommentedFence(t5, 1)
    IN  SubBlankLines(t6, 1)

\* ---------------------------------------------------------------- is_safe_code
Upper == <<"A", "B", "C", "D", "E", "F", "G", "H", "I", "J", "K", "L", "M",
           "N", "O", "P", "Q", "R", "S", "T", "U", "V", "W", "X", "Y", "Z">>
Lower == <<"a", "b", "c", "d", "e", "f", "g", "h", "i", "j", "k", "l", "m",
           "n", "o", "p", "q", "r", "s", "t", "u", "v", "w", "x", "y", "z">>

\* the lower-case letter of each upper-case letter
ToLower == [c \in {Upper[i] : i \in 1..Len(Upper)} |->
              Lower[CHOOSE i \in 1..Len(Upper) : Upper[i] = c]]

\* str.lower(), one character
LowerChar(c) == IF c \in DOMAIN ToLower THEN ToLower[c] ELSE c

\* str.lower()
lower(s) == [i \in 1..Len(s) |-> LowerChar(s[i])]

forbidden ==
    << <<"o", "p", "e", "n", "(">>,
       <<"e", "x", "e", "c", "(">>,
       <<"e", "v", "a", "l", "(">>,
       <<"s", "u", "b", "p", "r", "o", "c", "e", "s", "s">>,
       <<"i", "m", "p", "o", "r", "t", " ", "o", "s">>,
       <<"i", "m", "p", "o", "r", "t", " ", "s", "y", "s">>,
       <<"_", "_", "i", "m", "p", "o", "r", "t", "_", "_">>,
       <<"i", "m", "p", "o", "r", "t", "l", "i", "b">>,
       <<"s", "y", "s", "t", "e", "m", "(">>,
       <<"p", "o", "p", "e", "n", "(">> >>

\* a plausible slip: the text is searched as typed, not lowered
is_safe_code_AsTyped(code) ==
    ~ \E k \in 1..Len(forbidden) : Contains(code, forbidden[k])

is_safe_code(code) ==
    LET lowered == lower(code)
    IN  ~ \E k \in 1..Len(forbidden) : Contains(lowered, forbidden[k])

\* ------------------------------------------------------- parse_claude_response
FEEDBACK == <<"-", "-", "-", "F", "E", "E", "D", "B", "A", "C", "K", "-", "-", "-">>
CODE     == <<"-", "-", "-", "C", "O", "D", "E", "-", "-", "-">>

\* str.find(p, from): the first index >= from where p occurs in s, or 0
Find(s, p, from) ==
    LET hits == {i \in from..(Len(s) + 1) : StartsWith(s, i, p)}
    IN  IF hits = {} THEN 0 ELSE SetMin(hits)

\* str.split(sep): the parts between the occurrences of sep, found left to
\* right and not overlapping
RECURSIVE split(_, _)
split(s, sep) ==
    LET k == Find(s, sep, 1)
    IN  IF k = 0 THEN <<s>>
        ELSE <<SubSeq(s, 1, k - 1)>> \o split(SubSeq(s, k + Len(sep), Len(s)), sep)

\* parts[n] with Python's 0-based index: the value, or an IndexError
Item(parts, n) ==
    IF n + 1 <= Len(parts) THEN [fault |-> "", value |-> parts[n + 1]]
    ELSE [fault |-> "IndexError", value |-> << >>]

\* the classes that except Exception catches, and those it lets through
ExceptionClasses == {"ZeroDivisionError", "SyntaxError", "NameError", "IndexError"}
BaseOnlyClasses  == {"SystemExit", "KeyboardInterrupt"}

CaughtByExceptException(fault) == fault \in ExceptionClasses

\* a plausible slip: the marker tests are left out
HasMarker_Always(response, marker) == TRUE

\* marker in response
HasMarker(response, marker) == Contains(response, marker)

\* lines 120-121
FeedbackSection(response) ==
    IF HasMarker(response, FEEDBACK)
    THEN LET after == Item(split(response, FEEDBACK), 1)
         IN  IF after.fault # "" THEN after
             ELSE LET head == Item(split(after.value, CODE), 0)
                  IN  IF head.fault # "" THEN head
                      ELSE [fault |-> "", value |-> strip(head.value)]
    ELSE [fault |-> "", value |-> << >>]

\* lines 123-125
CodeSection(response) ==
    IF HasMarker(response, CODE)
    THEN LET after == Item(split(response, CODE), 1)
         IN  IF after.fault # "" THEN after
             ELSE [fault |-> "",
                   value |-> clean_code_from_response(strip(after.value))]
    ELSE [fault |-> "", value |-> << >>]

\* what the caller gets: a returned pair, or a fault that crossed the call
parse_claude_response(response) ==
    LET f == FeedbackSection(response)
        c == CodeSection(response)
        fault == IF f.fault # "" THEN f.fault ELSE c.fault
    IN  IF fault = ""
        THEN [kind |-> "return", fault |-> "", feedback |-> f.value, code |-> c.value]
        ELSE IF CaughtByExceptException(fault)
        THEN [kind |-> "return", fault |-> "", feedback |-> response, code |-> << >>]
        ELSE [kind |-> "raise", fault |-> fault, feedback |-> << >>, code |-> << >>]

\* ------------------------------------------------------------ executed snippets
\* A snippet is a sequence of statements, one per line.  Each statement kind
\* has its source text and the effect of running it in the namespace of
\* execute_code.
StmtText(k) ==
    CASE k = "out"  -> <<"p", "r", "i", "n", "t", "(", "1", ")", NL>>
      [] k = "err"  -> <<"p", "r", "i", "n", "t", "(", "2", ",", "f", "i", "l", "e",
                         "=", "s", "t", "a", "t", "i", "s", "t", "i", "c", "s", ".",
                         "s", "y", "s", ".", "s", "t", "d", "e", "r", "r", ")", NL>>
      [] k = "div"  -> <<"1", "/", "0", NL>>
      [] k = "exit" -> <<"r", "a", "i", "s", "e", " ", "S", "y", "s", "t", "e", "m",
                         "E", "x", "i", "t", NL>>
      [] k = "int"  -> <<"r", "a", "i", "s", "e", " ", "K", "e", "y", "b", "o", "a",
                         "r", "d", "I", "n", "t", "e", "r", "r", "u", "p", "t", NL>>
      [] k = "syn"  -> <<"1", "/", NL>>
      [] k = "os"   -> <<"i", "m", "p", "o", "r", "t", " ", "o", "s", NL>>

StmtKinds == {"out", "err", "div", "exit", "int", "syn", "os"}

\* the fault a statement raises when it runs ("" when it raises none)
StmtFault(k) ==
    CASE k = "div"  -> "ZeroDivisionError"
      [] k = "exit" -> "SystemExit"
      [] k = "int"  -> "KeyboardInterrupt"
      [] OTHER      -> ""

RECURSIVE Render(_)
Render(prog) ==
    IF prog = << >> THEN << >> ELSE StmtText(Head(prog)) \o Render(Tail(prog))

Programs == UNION {[1..n -> StmtKinds] : n \in 0..MaxStmts}

\* compile(code, '<string>', 'exec') raises SyntaxError on a malformed line
CompileFault(prog) ==
    IF \E i \in 1..Len(prog) : prog[i] = "syn" THEN "SyntaxError" ELSE ""

\* ------------------------------------------------------------------ the state
OrigStdout == 1     \* the object sys.stdout is bound to at start-up
OrigStderr == 2     \* the object sys.stderr is bound to at start-up
NoObj      == 0     \* an unbound local

VARIABLES
    \* clean_code_from_response applied to a text, and to its own output
    code_text, cleaned, recleaned,
    \* is_safe_code applied to a text
    code, safe,
    \* parse_claude_response applied to a reply
    response, parsed,
    \* execute_code: position, argument, the snippet it stands for
    pc, arg_code, program, ip,
    \* the process's channels, and capture_output's locals
    sys_stdout, sys_stderr, new_out, new_err, old_out, old_err,
    \* the text held by the two StringIO sinks of the current call
    buf_out, buf_err,
    \* execute_code's locals
    globals_dict, compiled_code, output, error, exception_msg, pending,
    \* what the caller of execute_code got
    outcome,
    \* how many pieces the text under assembly was put together from
    npieces,
    \* the host: "absent" when __import__('colorama') raises ImportError,
    \* "wraps" when colorama.init() rebinds sys.stdout and sys.stderr to stream
    \* wrappers of its own (it does when the stream is no terminal, or on
    \* Windows), "plain" when it leaves them
    host_colorama

cleanvars == <<code_text, cleaned, recleaned>>
safevars  == <<code, safe>>
parsevars == <<response, parsed>>
chanvars  == <<sys_stdout, sys_stderr, new_out, new_err, old_out, old_err>>
bufvars   == <<buf_out, buf_err>>
localvars == <<globals_dict, compiled_code, output, error, exception_msg>>
execvars  == <<pc, arg_code, program, ip, chanvars, bufvars, localvars, pending, outcome>>
vars      == <<cleanvars, safevars, parsevars, execvars, npieces, host_colorama>>

NotRun == [done |-> FALSE, value |-> << >>]
Ran(v) == [done |-> TRUE, value |-> v]

NotParsed == [done |-> FALSE, kind |-> "", fault |-> "", feedback |-> << >>, code |-> << >>]

NoOutcome == [kind |-> "none", fault |-> "", stdout |-> << >>, stderr |-> << >>,
              exception |-> ""]

Init ==
    /\ code_text = << >> /\ cleaned = NotRun /\ recleaned = NotRun
    /\ code = << >> /\ safe = [checked |-> FALSE, value |-> FALSE]
    /\ response = << >> /\ parsed = NotParsed
    /\ pc = "idle" /\ arg_code = << >> /\ program = << >> /\ ip = 0
    /\ sys_stdout = OrigStdout /\ sys_stderr = OrigStderr
    /\ new_out = NoObj /\ new_err = NoObj /\ old_out = NoObj /\ old_err = NoObj
    /\ buf_out = << >> /\ buf_err = << >>
    /\ globals_dict = {} /\ compiled_code = FALSE
    /\ output = << >> /\ error = << >> /\ exception_msg = ""
    /\ pending = ""
    /\ outcome = NoOutcome
    /\ npieces = 0
    /\ host_colorama \in {"absent", "plain", "wraps"}

\* ------------------------------------------------------ the cleaner, driven
CleanPieces ==
    { <<AST>>, <<AST, AST>>, <<BT>>, Fence, <<"a">>, <<" ">>, <<NL>>, <<"#">>,
      <<"p", "y", "t", "h", "o", "n">> }

\* the caller assembles a text, one piece at a time
TypeText(piece) ==
    /\ npieces < MaxCleanPieces
    /\ cleaned.done = FALSE
    /\ code_text' = code_text \o piece
    /\ npieces' = npieces + 1
    /\ UNCHANGED <<cleaned, recleaned, safevars, parsevars, execvars, host_colorama>>

Clean ==
    /\ cleaned.done = FALSE
    /\ cleaned' = Ran(clean_code_from_response(code_text))
    /\ UNCHANGED <<code_text, recleaned, safevars, parsevars, execvars, npieces, host_colorama>>

CleanAgain ==
    /\ cleaned.done
    /\ recleaned.done = FALSE
    /\ recleaned' = Ran(clean_code_from_response(cleaned.value))
    /\ UNCHANGED <<code_text, cleaned, safevars, parsevars, execvars, npieces, host_colorama>>

NextClean ==
    \/ \E piece \in CleanPieces : TypeText(piece)
    \/ Clean
    \/ CleanAgain

SpecClean == Init /\ [][NextClean]_vars

\* ------------------------------------------------ the safety filter, driven
CodePieces ==
    { <<"o">>, <<"p">>, <<"P", "E", "n", "(">>, <<"e", "V", "a", "l", "(">>,
      <<"i", "m", "p", "o", "r", "t">>, <<"I", "m", "P", "o", "r", "T", " ">>,
      <<"O", "s">>, <<"l", "i", "b">> }

TypeCode(piece) ==
    /\ npieces < MaxCodePieces
    /\ safe.checked = FALSE
    /\ code' = code \o piece
    /\ npieces' = npieces + 1
    /\ UNCHANGED <<safe, cleanvars, parsevars, execvars, host_colorama>>

CheckSafe ==
    /\ safe.checked = FALSE
    /\ safe' = [checked |-> TRUE, value |-> is_safe_code(code)]
    /\ UNCHANGED <<code, npieces, host_colorama, cleanvars, parsevars, execvars>>

NextSafe ==
    \/ \E piece \in CodePieces : TypeCode(piece)
    \/ CheckSafe

SpecSafe == Init /\ [][NextSafe]_vars

\* ------------------------------------------------------- the parser, driven
ReplyPieces ==
    { FEEDBACK, CODE, <<"C", "O", "D", "E", "-", "-", "-">>, <<"a">>, <<" ">>,
      <<AST>>, <<"b", NL>> }

TypeReply(piece) ==
    /\ npieces < MaxReplyPieces
    /\ parsed.done = FALSE
    /\ response' = response \o piece
    /\ npieces' = npieces + 1
    /\ UNCHANGED <<parsed, cleanvars, safevars, execvars, host_colorama>>

Parse ==
    /\ parsed.done = FALSE
    /\ parsed' = [done |-> TRUE] @@ parse_claude_response(response)
    /\ UNCHANGED <<response, npieces, host_colorama, cleanvars, safevars, execvars>>

NextParse ==
    \/ \E piece \in ReplyPieces : TypeReply(piece)
    \/ Parse

SpecParse == Init /\ [][NextParse]_vars

\* ------------------------------------------------------------- execute_code
\* lines 75-85
allowed_modules ==
    {"random", "math", "datetime", "json", "re", "collections", "itertools",
     "statistics", "time"}

\* a new object (a StringIO, a stream wrapper): none of those in use
FreshObj(used) == SetMin({n \in 3..(Cardinality(used) + 3) : n \notin used})

\* lines 87-93: added when the host has the terminal-colour module
colorama_names == {"colorama", "Fore", "Back", "Style"}

\* lines 68-73: what sys.stdout, sys.stderr are bound to after the import
\* attempt and colorama.init()
AfterColoramaInit(host, cur_out, cur_err) ==
    IF host = "wraps"
    THEN LET w == FreshObj({OrigStdout, OrigStderr, cur_out, cur_err})
         IN  <<w, FreshObj({OrigStdout, OrigStderr, cur_out, cur_err, w})>>
    ELSE <<cur_out, cur_err>>

\* a plausible slip: the snippet is run whatever the filter says
Rejects_Never(c) == FALSE

\* line 63
Rejects(c) == ~is_safe_code(c)

\* a plausible slip: the finally block leaves the channels as they are
RestoredChannels_Kept(saved_out, saved_err, cur_out, cur_err) ==
    <<cur_out, cur_err>>

\* lines 58-59: what sys.stdout, sys.stderr are bound to on exit
RestoredChannels(saved_out, saved_err, cur_out, cur_err) ==
    <<saved_out, saved_err>>

\* lines 61-99: the call, up to the with statement.  A rejected text ends the
\* call at once with CodeExecutionError.
Call(prog) ==
    /\ pc = "idle"
    /\ arg_code' = Render(prog)
    /\ program' = prog
    /\ ip' = 0
    /\ new_out' = NoObj /\ new_err' = NoObj /\ old_out' = NoObj /\ old_err' = NoObj
    /\ buf_out' = << >> /\ buf_err' = << >>
    /\ compiled_code' = FALSE
    /\ output' = << >> /\ error' = << >> /\ exception_msg' = ""
    /\ pending' = ""
    /\ IF Rejects(arg_code')
       THEN /\ outcome' = [NoOutcome EXCEPT !.kind = "raise",
                                            !.fault = "CodeExecutionError"]
            /\ globals_dict' = {}
            /\ pc' = "idle"
            /\ UNCHANGED <<sys_stdout, sys_stderr>>
       ELSE /\ outcome' = NoOutcome
            /\ LET ch == AfterColoramaInit(host_colorama, sys_stdout, sys_stderr)
               IN  sys_stdout' = ch[1] /\ sys_stderr' = ch[2]
            /\ globals_dict' = {"__builtins__"} \cup allowed_modules
                                 \cup (IF host_colorama = "absent" THEN {}
                                       ELSE colorama_names)
            /\ pc' = "capture"
    /\ UNCHANGED <<cleanvars, safevars, parsevars, npieces, host_colorama>>

\* lines 53-57: capture_output up to its yield
EnterCapture ==
    /\ pc = "capture"
    /\ LET o == FreshObj({OrigStdout, OrigStderr, sys_stdout, sys_stderr})
           e == FreshObj({OrigStdout, OrigStderr, sys_stdout, sys_stderr, o})
       IN  /\ new_out' = o /\ new_err' = e
           /\ old_out' = sys_stdout /\ old_err' = sys_stderr
           /\ sys_stdout' = o /\ sys_stderr' = e
    /\ buf_out' = << >> /\ buf_err' = << >>
    /\ pc' = "compile"
    /\ UNCHANGED <<arg_code, program, ip, localvars, pending, outcome,
                   cleanvars, safevars, parsevars, npieces, host_colorama>>

\* a fault raised inside the try block of lines 102-110: the handler of line
\* 108 takes it if it is an Exception, otherwise it leaves the with block
Raise(fault) ==
    IF CaughtByExceptException(fault)
    THEN /\ pc' = "except" /\ pending' = fault
    ELSE /\ pc' = "finally" /\ pending' = fault

\* line 103
Compile ==
    /\ pc = "compile"
    /\ IF CompileFault(program) # ""
       THEN /\ Raise(CompileFault(program))
            /\ UNCHANGED compiled_code
       ELSE /\ compiled_code' = TRUE
            /\ pc' = "exec"
            /\ UNCHANGED pending
    /\ UNCHANGED <<arg_code, program, ip, chanvars, bufvars, globals_dict,
                   output, error, exception_msg, outcome,
                   cleanvars, safevars, parsevars, npieces, host_colorama>>

\* line 105, one statement of the snippet: print writes to the object that
\* sys.stdout (sys.stderr) is bound to at that moment
ExecStmt ==
    /\ pc = "exec"
    /\ ip < Len(program)
    /\ ip' = ip + 1
    /\ LET k == program[ip + 1]
       IN  /\ buf_out' = IF k = "out" /\ sys_stdout = new_out
                         THEN buf_out \o <<"1", NL>> ELSE buf_out
           /\ buf_err' = IF k = "err" /\ sys_stderr = new_err
                         THEN buf_err \o <<"2", NL>> ELSE buf_err
           /\ IF StmtFault(k) # ""
              THEN Raise(StmtFault(k))
              ELSE UNCHANGED <<pc, pending>>
    /\ UNCHANGED <<arg_code, program, chanvars, localvars, outcome,
                   cleanvars, safevars, parsevars, npieces, host_colorama>>

\* lines 106-107: the snippet ran to its end
GetValues ==
    /\ pc = "exec"
    /\ ip = Len(program)
    /\ output' = buf_out
    /\ error' = buf_err
    /\ pc' = "finally"
    /\ UNCHANGED <<arg_code, program, ip, chanvars, bufvars, globals_dict,
                   compiled_code, exception_msg, pending, outcome,
                   cleanvars, safevars, parsevars, npieces, host_colorama>>

\* lines 108-110: the handler; the report starts with the fault's type name
Except ==
    /\ pc = "except"
    /\ error' = buf_err
    /\ exception_msg' = pending
    /\ pending' = ""
    /\ pc' = "finally"
    /\ UNCHANGED <<arg_code, program, ip, chanvars, bufvars, globals_dict,
                   compiled_code, output, outcome,
                   cleanvars, safevars, parsevars, npieces, host_colorama>>

\* lines 58-59 and 112: the with block is left, by its end or by a fault on
\* its way out, and the call ends
Finally ==
    /\ pc = "finally"
    /\ LET r == RestoredChannels(old_out, old_err, sys_stdout, sys_stderr)
       IN  sys_stdout' = r[1] /\ sys_stderr' = r[2]
    /\ outcome' = IF pending # ""
                  THEN [NoOutcome EXCEPT !.kind = "raise", !.fault = pending]
                  ELSE [kind |-> "return", fault |-> "", stdout |-> output,
                        stderr |-> error, exception |-> exception_msg]
    /\ pc' = "idle"
    /\ UNCHANGED <<arg_code, program, ip, new_out, new_err, old_out, old_err,
                   bufvars, localvars, pending, cleanvars, safevars, parsevars,
                   npieces, host_colorama>>

NextExec ==
    \/ \E prog \in Programs : Call(prog)
    \/ EnterCapture
    \/ Compile
    \/ ExecStmt
    \/ GetValues
    \/ Except
    \/ Finally

SpecExec == Init /\ [][NextExec]_vars

\* ------------------------------------------------------------------ claims

\* the positions of execute_code inside its with block
InCapture == {"compile", "exec", "except", "finally"}

C2_NoFaultCrossesTheCall ==
    (pc = "idle" /\ outcome.kind # "none") =>
        /\ is_safe_code(arg_code) => outcome.kind = "return"
        /\ outcome.kind = "raise" => outcome.fault = "CodeExecutionError"

\* C3: a call on a text that is_safe_code refuses ends at once by
\* CodeExecutionError: no namespace, no sinks, no redirection, nothing
\* compiled, no statement run, no tuple.
C3_RejectedBeforeAnyStep ==
    ~is_safe_code(arg_code) =>
        /\ pc = "idle"
        /\ outcome.kind = "raise" /\ outcome.fault = "CodeExecutionError"
        /\ globals_dict = {}
        /\ new_out = NoObj /\ new_err = NoObj /\ old_out = NoObj /\ old_err = NoObj
        /\ host_colorama # "wraps" => sys_stdout = OrigStdout /\ sys_stderr = OrigStderr
        /\ compiled_code = FALSE
        /\ ip = 0 /\ buf_out = << >> /\ buf_err = << >>

\* C3: a refused snippet whose first statement would have printed
C3_Witness ==
    /\ ~is_safe_code(arg_code)
    /\ outcome.fault = "CodeExecutionError"
    /\ Len(program) > 1 /\ program[1] = "out"

\* C4: a returned exception report comes with all the text the snippet wrote
\* to standard output and to standard error before the fault.
C4_PartialOutputReturned ==
    (pc = "idle" /\ outcome.kind = "return" /\ outcome.exception # "") =>
        /\ outcome.stdout = buf_out
        /\ outcome.stderr = buf_err

\* two characters that are equal when letter case is ignored
SameIgnoringCase(a, b) ==
    a = b \/ \E i \in 1..Len(Upper) : {a, b} = {Upper[i], Lower[i]}

\* a denylist pattern occurs in the text, letter case ignored
DenylistHit(text) ==
    \E k \in 1..Len(forbidden) :
        \E off \in 0..(Len(text) - Len(forbidden[k])) :
            \A j \in 1..Len(forbidden[k]) :
                SameIgnoringCase(text[off + j], forbidden[k][j])

\* C5: is_safe_code is false exactly for the texts in which a denylist
\* pattern occurs when letter case is ignored.
C5_UnsafeIffDenylistHit ==
    safe.checked => (safe.value = FALSE <=> DenylistHit(code))

\* C5: a text refused for a pattern that it holds in mixed case only
C5_Witness ==
    /\ safe.checked /\ safe.value = FALSE
    /\ \A k \in 1..Len(forbidden) : ~Contains(code, forbidden[k])

\* C6: cleaning the cleaner's output changes nothing.
C6_Idempotent ==
    recleaned.done => recleaned.value = cleaned.value

\* C10: the cleaner's output holds no fence and nothing the bold or the
\* italic pattern matches.
C10_NoMarkersLeft ==
    cleaned.done =>
        /\ ~Contains(cleaned.value, Fence)
        /\ \A i \in 1..Len(cleaned.value) :
             BoldClose(cleaned.value, i) = 0 /\ ItalicClose(cleaned.value, i) = 0

\* the text of s after the first occurrence of marker, up to the first
\* occurrence of stop that starts after that marker (to the end when none)
Between(s, marker, stop) ==
    LET from == Find(s, marker, 1) + Len(marker)
        to   == Find(s, stop, from)
    IN  SubSeq(s, from, IF to = 0 THEN Len(s) ELSE to - 1)

\* the text of s after the first occurrence of marker
After(s, marker) == SubSeq(s, Find(s, marker, 1) + Len(marker), Len(s))

\* C7: the feedback is the trimmed text between the first FEEDBACK marker and
\* the first CODE marker after it, or the end of the reply.
C7_FeedbackUpToCode ==
    (parsed.done /\ Contains(response, FEEDBACK)) =>
        parsed.feedback = strip(Between(response, FEEDBACK, CODE))

\* C8: the code is the cleaned, trimmed text of everything after the first
\* CODE marker.
C8_CodeIsAllAfterMarker ==
    (parsed.done /\ Contains(response, CODE)) =>
        parsed.code = clean_code_from_response(strip(After(response, CODE)))

\* C9: every reply parses to a returned pair; a section whose marker the
\* reply lacks is empty.
C9_ParseTotal ==
    parsed.done =>
        /\ parsed.kind = "return"
        /\ ~Contains(response, FEEDBACK) => parsed.feedback = << >>
        /\ ~Contains(response, CODE) => parsed.code = << >>

\* C9: a parsed reply with the CODE marker before the FEEDBACK marker
C9_Witness ==
    /\ parsed.done /\ parsed.kind = "return"
    /\ Contains(response, FEEDBACK) /\ Contains(response, CODE)
    /\ Find(response, CODE, 1) < Find(response, FEEDBACK, 1)

====
